---- MODULE Spec2Model ----
(***************************************************************************)
(* State-machine model of the air-pollution simulation in src/agents.py:   *)
(* a PollutionModel on a bounded, non-toroidal MultiGrid with one          *)
(* PollutionCell per position, CarAgents, FactoryAgents and TreeAgents,    *)
(* driven by a SimultaneousActivation schedule (every agent's step() in    *)
(* registration order, then every agent's advance() in the same order)     *)
(* and sampled by a DataCollector at the start of every PollutionModel.step*)
(*                                                                         *)
(* Pollution values are Python numbers produced by +10, +20, *0.7, *0.9    *)
(* and / (len(neighbors) + 1).  They are modelled exactly, as reduced      *)
(* fractions <<numerator, denominator>>, so no rounding is introduced by   *)
(* the model.                                                              *)
(***************************************************************************)
EXTENDS Integers, Sequences, FiniteSets

\* ---------------------------------------------------------------- bounds
MaxWidth == 2
MaxHeight == 2
MaxCars == 1
MaxFactories == 2
MaxTrees == 1
MaxTicks == 2
ScenarioTicks == 5

\* ------------------------------------------------------ program constants
CarEmission == 10
FactoryEmission == 20
TreeThreshold == 30

\* ------------------------------------------------------- exact arithmetic
RECURSIVE GCD(_, _)
GCD(a, b) == IF b = 0 THEN a ELSE GCD(b, a % b)

\* the fraction n/d (n >= 0, d > 0) in lowest terms
Frac(n, d) == LET g == GCD(n, d) IN <<n \div g, d \div g>>

Zero == <<0, 1>>

\* x + y
Plus(x, y) ==
    LET g == GCD(x[2], y[2])
        l == (x[2] \div g) * y[2]
    IN  Frac(x[1] * (l \div x[2]) + y[1] * (l \div y[2]), l)

\* x + k for an integer k
PlusInt(x, k) == Frac(x[1] + k * x[2], x[2])

\* x * (a / b) for integers a >= 0, b > 0
Times(x, a, b) ==
    LET g1 == GCD(x[1], b)
        g2 == GCD(a, x[2])
    IN  Frac((x[1] \div g1) * (a \div g2), (x[2] \div g2) * (b \div g1))

\* x / k for an integer k > 0
DivInt(x, k) == Times(x, 1, k)

\* x > k for an integer k
GreaterInt(x, k) == x[1] > k * x[2]

\* ------------------------------------------------------------------ state
VARIABLES
    width,          \* MultiGrid width
    height,         \* MultiGrid height
    num_cars,       \* number of CarAgents
    num_factories,  \* number of FactoryAgents
    num_trees,      \* number of TreeAgents
    error,          \* "none", or the exception that ended the program
    pollution,      \* PollutionCell.pollution, by position
    pos,            \* Agent.pos of every car, factory and tree, by unique_id
    grid,           \* MultiGrid contents: the set of agents in each cell
    alive,          \* TreeAgent.alive, by unique_id
    model_vars,     \* DataCollector.model_vars: one sample per collect()
    steps,          \* schedule.steps: completed schedule.step() calls
    pc,             \* "ready" | "step" | "advance": where schedule.step() is
    idx,            \* index in the schedule of the next agent to be called
    pre,            \* history variable: pollution when the current tick began
    log             \* history variable: agent calls made in the current tick

vars == <<width, height, num_cars, num_factories, num_trees, error, pollution,
          pos, grid, alive, model_vars, steps, pc, idx, pre, log>>

config == <<width, height, num_cars, num_factories, num_trees>>

\* ------------------------------------------------------------------- grid
\* positions of a w x h grid
Positions(w, h) == (0 .. w - 1) \X (0 .. h - 1)

\* MultiGrid.get_neighborhood(p, moore=True, include_center=False), torus=False
get_neighborhood(p, w, h) ==
    { q \in Positions(w, h) :
        /\ q # p
        /\ q[1] - p[1] \in -1 .. 1
        /\ q[2] - p[2] \in -1 .. 1 }

\* unique_ids handed out by PollutionModel.__init__
CarIds(nc) == 0 .. nc - 1
FactoryIds(nc, nf) == nc .. nc + nf - 1
TreeIds(nc, nf, nt) == nc + nf .. nc + nf + nt - 1
AgentIds(nc, nf, nt) == 0 .. nc + nf + nt - 1

\* the PollutionCells in creation order: for x in range(width): for y in range(height)
RECURSIVE CellOrder(_, _, _)
CellOrder(w, h, k) ==
    IF w <= 0 \/ h <= 0 \/ k >= w * h THEN <<>>
    ELSE <<[kind |-> "PollutionCell", id |-> <<k \div h, k % h>>]>> \o CellOrder(w, h, k + 1)

RECURSIVE IdOrder(_, _, _)
IdOrder(kind, lo, hi) ==
    IF lo > hi THEN <<>>
    ELSE <<[kind |-> kind, id |-> lo]>> \o IdOrder(kind, lo + 1, hi)

\* the cars registered before the cells
ScheduleAgentsCarsFirst(w, h, nc, nf, nt) ==
    IdOrder("CarAgent", 0, nc - 1)
    \o CellOrder(w, h, 0)
    \o IdOrder("FactoryAgent", nc, nc + nf - 1)
    \o IdOrder("TreeAgent", nc + nf, nc + nf + nt - 1)

\* the trees registered before the cars and the factories
ScheduleAgentsTreesFirst(w, h, nc, nf, nt) ==
    CellOrder(w, h, 0)
    \o IdOrder("TreeAgent", nc + nf, nc + nf + nt - 1)
    \o IdOrder("CarAgent", 0, nc - 1)
    \o IdOrder("FactoryAgent", nc, nc + nf - 1)

\* the factories created as CarAgents
ScheduleAgentsFactoriesAsCars(w, h, nc, nf, nt) ==
    CellOrder(w, h, 0)
    \o IdOrder("CarAgent", 0, nc + nf - 1)
    \o IdOrder("TreeAgent", nc + nf, nc + nf + nt - 1)

\* schedule.agents: the order in which PollutionModel.__init__ calls schedule.add
ScheduleAgents(w, h, nc, nf, nt) ==
    CellOrder(w, h, 0)
    \o IdOrder("CarAgent", 0, nc - 1)
    \o IdOrder("FactoryAgent", nc, nc + nf - 1)
    \o IdOrder("TreeAgent", nc + nf, nc + nf + nt - 1)

schedule == ScheduleAgents(width, height, num_cars, num_factories, num_trees)

\* the agents of a schedule, as a set
Agents(agents) == { agents[k] : k \in 1 .. Len(agents) }

\* MultiGrid.place_agent / remove_agent on the contents g
place_agent(g, agent, p) == [g EXCEPT ![p] = @ \cup {agent}]

remove_agent(g, agent, p) == [g EXCEPT ![p] = @ \ {agent}]

\* the agent left in its old cell as well
move_agent_keeps_old(g, agent, from, to) == place_agent(g, agent, to)

\* MultiGrid.move_agent: remove_agent, then place_agent at the new position
move_agent(g, agent, from, to) == place_agent(remove_agent(g, agent, from), agent, to)

\* ---------------------------------------------------------------- metrics
RECURSIVE SumOver(_, _)
SumOver(S, f) ==
    IF S = {} THEN Zero
    ELSE LET c == CHOOSE c \in S : TRUE IN Plus(f[c], SumOver(S \ {c}, f))

\* PollutionModel.average_pollution over schedule.agents
RECURSIVE AveragePollutionLoop(_, _, _, _)
AveragePollutionLoop(agents, k, total_pollution, count) ==
    IF k > Len(agents)
    THEN IF count > 0 THEN DivInt(total_pollution, count) ELSE Zero
    ELSE IF agents[k].kind = "PollutionCell"
         THEN AveragePollutionLoop(agents, k + 1,
                                   Plus(total_pollution, pollution[agents[k].id]), count + 1)
         ELSE AveragePollutionLoop(agents, k + 1, total_pollution, count)

\* the total returned instead of the mean
average_pollution_total == SumOver(DOMAIN pollution, pollution)

average_pollution == AveragePollutionLoop(schedule, 1, Zero, 0)

\* the "agent.alive" test left out
tree_growth_rate_every_tree ==
    Cardinality({ k \in 1 .. Len(schedule) : schedule[k].kind = "TreeAgent" })

tree_growth_rate ==
    Cardinality({ k \in 1 .. Len(schedule) :
                    schedule[k].kind = "TreeAgent" /\ alive[schedule[k].id] })

\* the "not agent.alive" test left out
tree_death_rate_every_tree ==
    Cardinality({ k \in 1 .. Len(schedule) : schedule[k].kind = "TreeAgent" })

tree_death_rate ==
    Cardinality({ k \in 1 .. Len(schedule) :
                    schedule[k].kind = "TreeAgent" /\ ~alive[schedule[k].id] })

\* only the latest sample kept
collect_latest_only(mv) ==
    <<[average |-> average_pollution,
       growth  |-> tree_growth_rate,
       death   |-> tree_death_rate]>>

\* DataCollector.collect: one value per model reporter, appended
collect(mv) ==
    Append(mv, [average |-> average_pollution,
                growth  |-> tree_growth_rate,
                death   |-> tree_death_rate])

\* ----------------------------------------------------------- construction
\* PollutionModel.__init__(w, h, nc, nf, nt).  With w <= 0 or h <= 0 no cell
\* is created, and the first randrange(0) (the first car, factory or tree)
\* raises ValueError; with no such agent the constructor returns an empty model.
Construct(w, h, nc, nf, nt) ==
    /\ width = w /\ height = h
    /\ num_cars = nc /\ num_factories = nf /\ num_trees = nt
    /\ model_vars = <<>>
    /\ steps = 0
    /\ pc = "ready"
    /\ idx = 0
    /\ log = <<>>
    /\ pollution = [p \in Positions(w, h) |-> Zero]
    /\ pre = pollution
    /\ IF (w <= 0 \/ h <= 0) /\ nc + nf + nt > 0
       THEN /\ error = "ValueError"
            /\ pos = <<>>
            /\ alive = <<>>
       ELSE /\ error = "none"
            /\ pos \in [AgentIds(nc, nf, nt) -> Positions(w, h)]
            /\ alive = [t \in TreeIds(nc, nf, nt) |-> TRUE]
    \* grid.place_agent of every cell at its own position and of every car,
    \* factory and tree at its random position
    /\ grid = [p \in Positions(w, h) |->
                 { a \in Agents(ScheduleAgents(w, h, nc, nf, nt)) :
                     IF a.kind = "PollutionCell" THEN a.id = p ELSE pos[a.id] = p }]

Init ==
    \E w \in 0 .. MaxWidth, h \in 0 .. MaxHeight,
       nc \in 0 .. MaxCars, nf \in 0 .. MaxFactories, nt \in 0 .. MaxTrees :
        Construct(w, h, nc, nf, nt)

\* ------------------------------------------------------------ agent steps
\* PollutionCell.step: in-place average with the neighbours' current values
PollutionCellStepValue(p) ==
    LET neighbors == get_neighborhood(p, width, height)
        total_pollution == Plus(SumOver(neighbors, pollution), pollution[p])
    IN  DivInt(total_pollution, Cardinality(neighbors) + 1)

\* "*= 1.1" instead of "*= 0.9"
PollutionCellAdvanceValueGrows(p) == Times(pollution[p], 11, 10)

\* the decay left out
PollutionCellAdvanceValueKeeps(p) == pollution[p]

\* PollutionCell.advance
PollutionCellAdvanceValue(p) == Times(pollution[p], 9, 10)

\* "= 20" instead of "+= 20"
FactoryEmittedValueOverwrites(p) == PlusInt(Zero, FactoryEmission)

\* FactoryAgent.step: the value of the factory's cell after "+= 20"
FactoryEmittedValue(p) == PlusInt(pollution[p], FactoryEmission)

\* the "if self.alive" test left out
TreeActsAlways(tree) == TRUE

\* TreeAgent.step: "if self.alive"
TreeActs(tree) == alive[tree]

\* 30 taken off instead of 30%
TreeMitigatedValueMinus30(p) == PlusInt(pollution[p], 0 - 30)

\* the cell keeps 30% instead of losing 30%
TreeMitigatedValueKeeps30(p) == Times(pollution[p], 3, 10)

\* TreeAgent.step: the mitigated value of the tree's cell
TreeMitigatedValue(p) == Times(pollution[p], 7, 10)

\* the comparison turned round
TreeDiesAtOrBelow(v) == ~GreaterInt(v, TreeThreshold)

\* TreeAgent.step: the survival test, on the cell's value v after mitigation
TreeDies(v) == GreaterInt(v, TreeThreshold)

\* the log with the call of the k-th scheduled agent's step() or advance() added
Called(k, op) == Append(log, [op |-> op, kind |-> schedule[k].kind, id |-> schedule[k].id])

\* PollutionModel.step, first statement: datacollector.collect(self); then
\* schedule.step() starts with the first agent
PollutionModelStep ==
    /\ error = "none"
    /\ pc = "ready"
    /\ steps < MaxTicks
    /\ model_vars' = collect(model_vars)
    /\ pc' = "step"
    /\ idx' = 1
    /\ pre' = pollution
    /\ log' = <<>>
    /\ UNCHANGED <<config, error, pollution, pos, grid, alive, steps>>

PollutionCellStep ==
    /\ error = "none"
    /\ pc = "step"
    /\ idx <= Len(schedule)
    /\ schedule[idx].kind = "PollutionCell"
    /\ pollution' = [pollution EXCEPT ![schedule[idx].id] = PollutionCellStepValue(schedule[idx].id)]
    /\ log' = Called(idx, "step")
    /\ idx' = idx + 1
    /\ UNCHANGED <<config, error, pos, grid, alive, model_vars, steps, pc, pre>>

CarAgentStep ==
    /\ error = "none"
    /\ pc = "step"
    /\ idx <= Len(schedule)
    /\ schedule[idx].kind = "CarAgent"
    /\ LET car == schedule[idx].id
           next_moves == get_neighborhood(pos[car], width, height)
       IN  IF next_moves = {}
           THEN \* random.choice of an empty sequence raises IndexError
                /\ error' = "IndexError"
                /\ UNCHANGED <<pollution, pos, grid, log, idx>>
           ELSE \E new_position \in next_moves :
                /\ grid' = move_agent(grid, schedule[idx], pos[car], new_position)
                /\ pos' = [pos EXCEPT ![car] = new_position]
                /\ pollution' = [pollution EXCEPT
                                   ![new_position] = PlusInt(@, CarEmission)]
                /\ log' = Called(idx, "step")
                /\ idx' = idx + 1
                /\ UNCHANGED error
    /\ UNCHANGED <<config, alive, model_vars, steps, pc, pre>>

FactoryAgentStep ==
    /\ error = "none"
    /\ pc = "step"
    /\ idx <= Len(schedule)
    /\ schedule[idx].kind = "FactoryAgent"
    /\ pollution' = [pollution EXCEPT
                       ![pos[schedule[idx].id]] = FactoryEmittedValue(pos[schedule[idx].id])]
    /\ log' = Called(idx, "step")
    /\ idx' = idx + 1
    /\ UNCHANGED <<config, error, pos, grid, alive, model_vars, steps, pc, pre>>

TreeAgentStep ==
    /\ error = "none"
    /\ pc = "step"
    /\ idx <= Len(schedule)
    /\ schedule[idx].kind = "TreeAgent"
    /\ LET tree == schedule[idx].id
       IN  IF TreeActs(tree)
           THEN /\ pollution' = [pollution EXCEPT ![pos[tree]] = TreeMitigatedValue(pos[tree])]
                /\ alive' = [alive EXCEPT ![tree] =
                                IF TreeDies(pollution'[pos[tree]]) THEN FALSE ELSE @]
           ELSE UNCHANGED <<pollution, alive>>
    /\ log' = Called(idx, "step")
    /\ idx' = idx + 1
    /\ UNCHANGED <<config, error, pos, grid, model_vars, steps, pc, pre>>

\* SimultaneousActivation.step: after the last step(), advance() from the first agent
ScheduleStepsDone ==
    /\ error = "none"
    /\ pc = "step"
    /\ idx > Len(schedule)
    /\ pc' = "advance"
    /\ idx' = 1
    /\ UNCHANGED <<config, error, pollution, pos, grid, alive, model_vars, steps, pre, log>>

PollutionCellAdvance ==
    /\ error = "none"
    /\ pc = "advance"
    /\ idx <= Len(schedule)
    /\ schedule[idx].kind = "PollutionCell"
    /\ pollution' = [pollution EXCEPT ![schedule[idx].id] = PollutionCellAdvanceValue(schedule[idx].id)]
    /\ log' = Called(idx, "advance")
    /\ idx' = idx + 1
    /\ UNCHANGED <<config, error, pos, grid, alive, model_vars, steps, pc, pre>>

\* Agent.advance, inherited by CarAgent, FactoryAgent and TreeAgent: does nothing
AgentAdvance ==
    /\ error = "none"
    /\ pc = "advance"
    /\ idx <= Len(schedule)
    /\ schedule[idx].kind # "PollutionCell"
    /\ log' = Called(idx, "advance")
    /\ idx' = idx + 1
    /\ UNCHANGED <<config, error, pollution, pos, grid, alive, model_vars, steps, pc, pre>>

\* SimultaneousActivation.step: after the last advance(), steps += 1 and return
ScheduleAdvancesDone ==
    /\ error = "none"
    /\ pc = "advance"
    /\ idx > Len(schedule)
    /\ pc' = "ready"
    /\ idx' = 0
    /\ steps' = steps + 1
    /\ UNCHANGED <<config, error, pollution, pos, grid, alive, model_vars, pre, log>>

Next ==
    \/ PollutionModelStep
    \/ PollutionCellStep
    \/ CarAgentStep
    \/ FactoryAgentStep
    \/ TreeAgentStep
    \/ ScheduleStepsDone
    \/ PollutionCellAdvance
    \/ AgentAdvance
    \/ ScheduleAdvancesDone

Spec == Init /\ [][Next]_vars

\* ================================================================= claims
NumCells == Cardinality(DOMAIN pollution)

\* every cell has been stepped in the current tick and no other agent yet
DiffusionPhaseDone == error = "none" /\ pc = "step" /\ idx = NumCells + 1

\* the average of the tick-start values of p and of its Moore neighbours
SnapshotAverage(p) ==
    LET neighbors == get_neighborhood(p, width, height)
    IN  DivInt(Plus(pre[p], SumOver(neighbors, pre)), Cardinality(neighbors) + 1)

\* C1: after the diffusion phase of every tick each PollutionCell holds
\* (its own pre-tick value + the pre-tick values of its Moore neighbours)
\* / (neighbour count + 1), every value read being the one held before any
\* cell diffused in this tick.
C1_SnapshotDiffusion ==
    DiffusionPhaseDone => \A p \in DOMAIN pollution : pollution[p] = SnapshotAverage(p)

\* the k-th call of the current tick
IsCall(k, op, kind) == log[k].op = op /\ log[k].kind = kind

CalledBefore(j, op, kind, id) ==
    \E i \in 1 .. j - 1 : IsCall(i, op, kind) /\ log[i].id = id

\* C2: within every tick all PollutionCells diffuse, then every Car acts,
\* then every Factory, then every Tree, then all PollutionCells decay: no
\* Car, Factory or Tree acts before the last cell has diffused, no cell
\* decays before the last Tree has acted, and a completed tick has decayed
\* every cell.
C2_PhaseOrder ==
    /\ \A j \in 1 .. Len(log) :
        /\ (log[j].op = "step" /\ log[j].kind # "PollutionCell")
              => \A p \in DOMAIN pollution : CalledBefore(j, "step", "PollutionCell", p)
        /\ (log[j].op = "step" /\ log[j].kind \in {"FactoryAgent", "TreeAgent"})
              => \A c \in CarIds(num_cars) : CalledBefore(j, "step", "CarAgent", c)
        /\ IsCall(j, "step", "TreeAgent")
              => \A f \in FactoryIds(num_cars, num_factories) :
                     CalledBefore(j, "step", "FactoryAgent", f)
        /\ IsCall(j, "advance", "PollutionCell")
              => /\ \A p \in DOMAIN pollution : CalledBefore(j, "step", "PollutionCell", p)
                 /\ \A c \in CarIds(num_cars) : CalledBefore(j, "step", "CarAgent", c)
                 /\ \A f \in FactoryIds(num_cars, num_factories) :
                        CalledBefore(j, "step", "FactoryAgent", f)
                 /\ \A t \in TreeIds(num_cars, num_factories, num_trees) :
                        CalledBefore(j, "step", "TreeAgent", t)
        /\ (log[j].op = "step" /\ log[j].kind = "PollutionCell")
              => \A i \in 1 .. j - 1 : IsCall(i, "step", "PollutionCell")
    /\ (error = "none" /\ pc = "ready" /\ steps > 0)
          => \A p \in DOMAIN pollution :
                 CalledBefore(Len(log) + 1, "advance", "PollutionCell", p)

\* a tick with cells, a car, a factory and a tree has run all its phases
C2_Witness ==
    /\ pc = "ready" /\ steps > 0 /\ error = "none"
    /\ NumCells > 1 /\ num_cars > 0 /\ num_factories > 0 /\ num_trees > 0

\* the step about to be taken is the call of tree t's step()
TreeCalled(t) ==
    /\ error = "none" /\ pc = "step" /\ idx <= Len(schedule)
    /\ schedule[idx].kind = "TreeAgent" /\ schedule[idx].id = t

\* C3: every Tree starts alive; once a Tree's alive flag is false it stays
\* false; the action of a dead Tree changes no cell's pollution; and a Tree
\* never leaves its position.
C3_TreeAliveMonotone ==
    /\ \A t \in DOMAIN alive : alive[t]
    /\ [][\A t \in DOMAIN alive :
            /\ t \in DOMAIN alive'
            /\ pos'[t] = pos[t]
            /\ ~alive[t] => ~alive'[t]
            /\ (~alive[t] /\ TreeCalled(t)) => pollution' = pollution]_vars

\* a Tree that was dead when the second tick began has been called in it
C3_Witness ==
    /\ error = "none" /\ pc = "ready" /\ steps = 2
    /\ model_vars[2].death > 0

\* C4: when a live Tree acts on its cell with pollution p, the cell's
\* pollution becomes 0.7 * p and the Tree is dead afterwards if and only if
\* 0.7 * p > 30, the test being made on the mitigated value.
C4_TreeMitigation ==
    [][\A t \in DOMAIN alive :
         (alive[t] /\ TreeCalled(t)) =>
            /\ pollution' = [pollution EXCEPT ![pos[t]] = Times(pollution[pos[t]], 7, 10)]
            /\ ~alive'[t] <=> GreaterInt(Times(pollution[pos[t]], 7, 10), 30)]_vars

LastCall == log[Len(log)]

\* a live Tree has just acted on a cell that held more than 30 and was
\* mitigated to at most 30, and it survived
C4_Witness ==
    /\ pc = "step" /\ Len(log) > 0 /\ IsCall(Len(log), "step", "TreeAgent")
    /\ alive[LastCall.id]
    /\ GreaterInt(Times(pollution[pos[LastCall.id]], 10, 7), 30)

\* the mean of all cells' pollution, and the Trees by alive flag
MeanPollution ==
    IF NumCells = 0 THEN Zero
    ELSE DivInt(SumOver(DOMAIN pollution, pollution), NumCells)

AliveTrees == Cardinality({ t \in DOMAIN alive : alive[t] })

DeadTrees == Cardinality({ t \in DOMAIN alive : ~alive[t] })

\* C5: the metrics sample of a tick is recorded between ticks, before any
\* mutation of the tick: its average is the mean of all cells' pollution
\* and its counts are the numbers of alive and dead Trees in the state the
\* previous tick (or construction) left, and recording it changes none of
\* them.
C5_SampleBeforeTick ==
    [][model_vars' # model_vars =>
         /\ pc = "ready"
         /\ model_vars' = Append(model_vars, [average |-> MeanPollution,
                                              growth  |-> AliveTrees,
                                              death   |-> DeadTrees])
         /\ pollution' = pollution /\ alive' = alive /\ pos' = pos]_vars

\* the second sample was taken of a polluted grid with a dead Tree
C5_Witness ==
    /\ Len(model_vars) = 2 /\ NumCells > 1
    /\ model_vars[2].average # Zero /\ model_vars[2].death > 0

\* C6: after n completed ticks the metrics history holds exactly n samples
\* (one more while a tick is running); every tick appends exactly one
\* sample and never alters or removes an earlier one.
C6_OneSamplePerTick ==
    /\ [](Len(model_vars) = IF pc = "ready" THEN steps ELSE steps + 1)
    /\ [][\/ model_vars' = model_vars
          \/ /\ Len(model_vars') = Len(model_vars) + 1
             /\ SubSeq(model_vars', 1, Len(model_vars)) = model_vars
             /\ steps' = steps]_vars

\* two ticks have completed and left two different samples
C6_Witness ==
    /\ pc = "ready" /\ steps = 2 /\ Len(model_vars) = 2
    /\ model_vars[1] # model_vars[2]

\* C7: right after construction every cell's pollution is 0 and every Tree
\* is alive, so the first sample is (0, num_trees, 0).
C7_InitialState ==
    /\ (steps = 0 /\ pc = "ready") =>
          /\ \A p \in DOMAIN pollution : pollution[p] = Zero
          /\ \A t \in DOMAIN alive : alive[t]
    /\ Len(model_vars) > 0 =>
          model_vars[1] = [average |-> Zero, growth |-> num_trees, death |-> 0]

\* the first sample of a model with cells, a car and a tree has been taken
C7_Witness ==
    Len(model_vars) > 0 /\ NumCells > 1 /\ num_trees > 0 /\ num_cars > 0

\* C8: construction with width <= 0 or height <= 0 fails whatever the
\* counts, so that no model exists and no tick ever runs.
C8_InvalidConfigRejected ==
    (width <= 0 \/ height <= 0) => (error # "none" /\ model_vars = <<>> /\ steps = 0)

\* C9: on a model with width >= 1 and height >= 1 no tick raises an error.
C9_TickNeverRaises ==
    (width >= 1 /\ height >= 1) => error = "none"

\* the step about to be taken is the call of car c's step()
CarCalled(c) ==
    /\ error = "none" /\ pc = "step" /\ idx <= Len(schedule)
    /\ schedule[idx].kind = "CarAgent" /\ schedule[idx].id = c

\* C10: every Car action moves the Car to a different, Moore-adjacent
\* position inside the grid and raises the pollution of the cell there by
\* exactly 10, leaving every other cell unchanged.
C10_CarMovesAndEmits ==
    [][\A c \in CarIds(num_cars) :
         CarCalled(c) =>
            /\ pos'[c] \in Positions(width, height)
            /\ pos'[c] # pos[c]
            /\ pos'[c][1] - pos[c][1] \in -1 .. 1
            /\ pos'[c][2] - pos[c][2] \in -1 .. 1
            /\ pollution' = [pollution EXCEPT ![pos'[c]] = PlusInt(@, 10)]]_vars

\* the step about to be taken is the call of factory f's step()
FactoryCalled(f) ==
    /\ error = "none" /\ pc = "step" /\ idx <= Len(schedule)
    /\ schedule[idx].kind = "FactoryAgent" /\ schedule[idx].id = f

\* C11: each Factory action on a cell with pollution p leaves that cell
\* with exactly p + 20 right after the action, and leaves every other cell's
\* pollution, every agent's position and every Tree's alive flag unchanged.
C11_FactoryEmits ==
    [][\A f \in FactoryIds(num_cars, num_factories) :
         FactoryCalled(f) =>
            /\ pollution' = [pollution EXCEPT ![pos[f]] = PlusInt(@, 20)]
            /\ pos' = pos /\ grid' = grid /\ alive' = alive]_vars

\* a Factory has just acted on a cell that already held pollution
C11_Witness ==
    /\ pc = "step" /\ Len(log) > 0 /\ IsCall(Len(log), "step", "FactoryAgent")
    /\ GreaterInt(pollution[pos[LastCall.id]], 20)

\* PollutionCell.step of cell p on the values f
DiffusedValue(f, p) ==
    LET neighbors == get_neighborhood(p, width, height)
    IN  DivInt(Plus(SumOver(neighbors, f), f[p]), Cardinality(neighbors) + 1)

\* the values f after the step() of the cells k, k + 1, ... of the schedule
RECURSIVE DiffusedFrom(_, _)
DiffusedFrom(f, k) ==
    IF k > NumCells THEN f
    ELSE DiffusedFrom([f EXCEPT ![schedule[k].id] = DiffusedValue(f, schedule[k].id)], k + 1)

\* every cell's value when the diffusion phase of the current tick ended
PostDiffusion == DiffusedFrom(pre, 1)

CarsAt(p) == Cardinality({ c \in CarIds(num_cars) : pos[c] = p })

FactoriesAt(p) == Cardinality({ f \in FactoryIds(num_cars, num_factories) : pos[f] = p })

TreesAt(p) == { t \in DOMAIN alive : pos[t] = p }

\* x * 0.7^k
RECURSIVE Mitigated(_, _)
Mitigated(x, k) == IF k = 0 THEN x ELSE Mitigated(Times(x, 7, 10), k - 1)

\* C12: a live Tree that acts on a cell mitigates, and applies its death
\* test to, the value that already includes this tick's additions: the
\* post-diffusion value plus 10 for every Car that arrived there in this
\* tick plus 20 for every Factory there (mitigated once more by every Tree
\* that acted there earlier in the tick), not the post-diffusion value.
C12_SequentialVisibility ==
    [][\A t \in DOMAIN alive :
         (alive[t] /\ TreeCalled(t)) =>
            LET p == pos[t]
                seen == PlusInt(PostDiffusion[p], 10 * CarsAt(p) + 20 * FactoriesAt(p))
            IN  \E k \in 0 .. Cardinality({ u \in TreesAt(p) : u < t }) :
                   /\ pollution'[p] = Mitigated(seen, k + 1)
                   /\ ~alive'[t] <=> GreaterInt(Mitigated(seen, k + 1), 30)]_vars

\* in the second tick a Tree has just acted on a polluted cell where a Car
\* arrived and a Factory sits
C12_Witness ==
    /\ pc = "step" /\ steps = 1 /\ Len(log) > 0 /\ IsCall(Len(log), "step", "TreeAgent")
    /\ LET p == pos[LastCall.id]
       IN  /\ CarsAt(p) > 0 /\ FactoriesAt(p) > 0
           /\ PostDiffusion[p] # Zero
           /\ pollution[p] # Times(PostDiffusion[p], 7, 10)

\* the car, factory or tree with unique_id a
AgentOf(a) == CHOOSE r \in Agents(schedule) : r.kind # "PollutionCell" /\ r.id = a

\* the cells whose contents hold the agent r
CellsHolding(r) == { q \in DOMAIN grid : r \in grid[q] }

OccupancyInvariant ==
    /\ DOMAIN grid = Positions(width, height)
    /\ DOMAIN pollution = Positions(width, height)
    /\ \A a \in DOMAIN pos :
          /\ CellsHolding(AgentOf(a)) = {pos[a]}
          /\ pos[a] \in Positions(width, height)
    /\ \A p \in DOMAIN grid :
          { r \in grid[p] : r.kind = "PollutionCell" } = {[kind |-> "PollutionCell", id |-> p]}

\* C13: in every reachable state each placed agent is in the contents of
\* exactly one cell, that cell is the agent's own position and lies in
\* [0,width) x [0,height), and every position holds exactly one
\* PollutionCell; a Car move takes the Car out of its old cell and puts it
\* into the new one, with no state in which it is in no cell or in two.
C13_GridOccupancy ==
    /\ []OccupancyInvariant
    /\ [][\A c \in CarIds(num_cars) :
            (CarCalled(c) /\ pos'[c] # pos[c]) =>
               grid' = [grid EXCEPT ![pos[c]] = @ \ {AgentOf(c)},
                                    ![pos'[c]] = @ \cup {AgentOf(c)}]]_vars

\* after two ticks a Car shares its cell with a Factory
C13_Witness ==
    /\ error = "none" /\ pc = "ready" /\ steps = 2
    /\ \E c \in CarIds(num_cars), f \in FactoryIds(num_cars, num_factories) :
          pos[c] = pos[f] /\ Cardinality(grid[pos[c]]) >= 3

\* C14: only Cars move: no step changes the position of a PollutionCell,
\* a Factory or a Tree (alive or dead), and the set of agents never gains
\* or loses a member.
C14_OnlyCarsMove ==
    [][/\ \A a \in FactoryIds(num_cars, num_factories)
                   \cup TreeIds(num_cars, num_factories, num_trees) :
            a \in DOMAIN pos => (a \in DOMAIN pos' /\ pos'[a] = pos[a])
       /\ \A p \in DOMAIN grid :
            { r \in grid[p] : r.kind # "CarAgent" } = { r \in grid'[p] : r.kind # "CarAgent" }
       /\ DOMAIN pos' = DOMAIN pos /\ DOMAIN alive' = DOMAIN alive
       /\ DOMAIN pollution' = DOMAIN pollution /\ DOMAIN grid' = DOMAIN grid
       /\ UNION { grid'[p] : p \in DOMAIN grid' } = UNION { grid[p] : p \in DOMAIN grid }
       /\ config' = config]_vars

\* after two ticks with a Car moving, a Factory and a dead Tree are in place
C14_Witness ==
    /\ error = "none" /\ pc = "ready" /\ steps = 2
    /\ num_cars > 0 /\ num_factories > 0 /\ DeadTrees > 0

\* C15: in every reachable state, also inside a tick, every cell's
\* pollution is >= 0.
C15_PollutionNonNegative ==
    \A p \in DOMAIN pollution : pollution[p][1] >= 0 /\ pollution[p][2] > 0

\* a Tree has just mitigated a polluted cell
C15_Witness ==
    /\ pc = "step" /\ Len(log) > 0 /\ IsCall(Len(log), "step", "TreeAgent")
    /\ pollution[pos[LastCall.id]] # Zero
    /\ alive[LastCall.id]

\* the step about to be taken is the call of a PollutionCell's step()
CellStepCalled(p) ==
    /\ error = "none" /\ pc = "step" /\ idx <= Len(schedule)
    /\ schedule[idx].kind = "PollutionCell" /\ schedule[idx].id = p

\* the step about to be taken is the call of a PollutionCell's advance()
CellAdvanceCalled(p) ==
    /\ error = "none" /\ pc = "advance" /\ idx <= Len(schedule)
    /\ schedule[idx].kind = "PollutionCell" /\ schedule[idx].id = p

\* the step leaves cell p's pollution alone, or raises it by a Car's 10 or
\* a Factory's 20 added to p, or lowers it by a Tree's x0.7 on p or by p's
\* decay x0.9
ChangeBySource(p) ==
    \/ pollution'[p] = pollution[p]
    \/ \E c \in CarIds(num_cars) :
          CarCalled(c) /\ pos'[c] = p /\ pollution'[p] = PlusInt(pollution[p], 10)
    \/ \E f \in FactoryIds(num_cars, num_factories) :
          FactoryCalled(f) /\ pos[f] = p /\ pollution'[p] = PlusInt(pollution[p], 20)
    \/ \E t \in DOMAIN alive :
          TreeCalled(t) /\ alive[t] /\ pos[t] = p /\ pollution'[p] = Times(pollution[p], 7, 10)
    \/ CellAdvanceCalled(p) /\ pollution'[p] = Times(pollution[p], 9, 10)

\* C16: any step that raises some cell's pollution is a Car (+10) or
\* Factory (+20) addition to that cell, and any step that lowers it is a
\* Tree mitigation (x0.7) or the decay (x0.9).
C16_ChangeSources ==
    [][\A p \in DOMAIN pollution : ChangeBySource(p)]_vars

\* C16, amended: any step that raises some cell's pollution is a Car (+10)
\* or Factory (+20) addition to that cell or that cell's own diffusion, and
\* any step that lowers it is a Tree mitigation (x0.7), the decay (x0.9) or
\* that cell's own diffusion.
C16_ChangeSourcesOrDiffusion ==
    [][\A p \in DOMAIN pollution :
         \/ ChangeBySource(p)
         \/ CellStepCalled(p) /\ pollution'[p] = DiffusedValue(pollution, p)]_vars

\* a tick with a Car, a Factory and a Tree has diffused, raised, mitigated
\* and decayed pollution, and the next tick has diffused it again
C16_Witness ==
    /\ error = "none" /\ pc = "step" /\ steps = 1 /\ idx = NumCells + 1 /\ NumCells > 1
    /\ num_cars > 0 /\ num_factories > 0 /\ num_trees > 0
    /\ pollution # pre
    /\ \E t \in DOMAIN alive : pre[pos[t]] # Zero

\* x < y
Less(x, y) ==
    LET g == GCD(x[2], y[2])
    IN  x[1] * (y[2] \div g) < y[1] * (x[2] \div g)

\* in the tick that has just ended no Car arrived at p, and p hosts no
\* Factory and no Tree that was alive when the tick began (every Tree on p
\* is dead and the last sample already counted every dead Tree)
QuietCell(p) ==
    /\ CarsAt(p) = 0 /\ FactoriesAt(p) = 0
    /\ \A t \in TreesAt(p) : ~alive[t]
    /\ TreesAt(p) # {} => DeadTrees = model_vars[Len(model_vars)].death

\* C17: for any cell that in a tick receives no Car, and hosts no Factory
\* and no live Tree, the post-tick pollution is 0.9 times the cell's
\* post-diffusion value of that tick, and strictly below it unless it is 0.
C17_DecayMonotone ==
    (error = "none" /\ pc = "ready" /\ steps > 0) =>
        \A p \in DOMAIN pollution :
            QuietCell(p) =>
               /\ pollution[p] = Times(PostDiffusion[p], 9, 10)
               /\ PostDiffusion[p] # Zero => Less(pollution[p], PostDiffusion[p])

\* the second tick has ended with a polluted cell that no agent acted on
C17_Witness ==
    /\ error = "none" /\ pc = "ready" /\ steps = 2
    /\ \E p \in DOMAIN pollution : QuietCell(p) /\ PostDiffusion[p] # Zero

\* C19: in every state and in every sample the alive and the dead Trees
\* add up to num_trees, and from one sample to the next the dead count
\* never decreases and the alive count never increases.
C19_TreeCounts ==
    /\ error # "ValueError" => tree_growth_rate + tree_death_rate = num_trees
    /\ \A k \in 1 .. Len(model_vars) :
          /\ model_vars[k].growth + model_vars[k].death = num_trees
          /\ k > 1 => /\ model_vars[k - 1].death <= model_vars[k].death
                      /\ model_vars[k - 1].growth >= model_vars[k].growth

\* a Tree died between the first sample and the second
C19_Witness ==
    /\ Len(model_vars) = 2
    /\ model_vars[1].death < model_vars[2].death
    /\ model_vars[1].growth > model_vars[2].growth

\* C20: with no Car and no Factory every cell's pollution stays 0, every
\* average sample is 0 and no Tree ever dies.
C20_NoEmitters ==
    (num_cars = 0 /\ num_factories = 0) =>
        /\ \A p \in DOMAIN pollution : pollution[p] = Zero
        /\ \A k \in 1 .. Len(model_vars) : model_vars[k].average = Zero
        /\ \A t \in DOMAIN alive : alive[t]

\* two ticks have run on a grid with a Tree and no emitter
C20_Witness ==
    /\ error = "none" /\ pc = "ready" /\ steps = 2 /\ Len(model_vars) = 2
    /\ num_cars = 0 /\ num_factories = 0 /\ num_trees > 0 /\ NumCells > 1

\* ------------------------------------------- the 3x3 five-tick scenario
\* Five ticks on a 3x3 grid take the numerators and denominators of the
\* exact fractions beyond 32 bits.  The scenario therefore carries, for every
\* pollution
\* value, an enclosure <<lo, hi>> in units of 1/Scale with lo <= value <= hi:
\* every operation of the code is monotone in its operands, so rounding lo
\* down and hi up at every division keeps the exact value enclosed.
Scale == 100000

EnclosedZero == <<0, 0>>

EnclosedPlus(x, y) == <<x[1] + y[1], x[2] + y[2]>>

EnclosedPlusInt(x, k) == <<x[1] + k * Scale, x[2] + k * Scale>>

\* x * (a / b) for integers a >= 0, b > 0
EnclosedTimes(x, a, b) == <<(x[1] * a) \div b, (x[2] * a + b - 1) \div b>>

EnclosedDivInt(x, k) == EnclosedTimes(x, 1, k)

RECURSIVE EnclosedSumOver(_, _)
EnclosedSumOver(S, f) ==
    IF S = {} THEN EnclosedZero
    ELSE LET c == CHOOSE c \in S : TRUE IN EnclosedPlus(f[c], EnclosedSumOver(S \ {c}, f))

\* PollutionCell.step of cell p on the enclosures f
EnclosedDiffusedValue(f, p) ==
    LET neighbors == get_neighborhood(p, width, height)
        total_pollution == EnclosedPlus(EnclosedSumOver(neighbors, f), f[p])
    IN  EnclosedDivInt(total_pollution, Cardinality(neighbors) + 1)

\* step() of the cells k, k + 1, ... of the schedule, each in place
RECURSIVE EnclosedDiffusion(_, _)
EnclosedDiffusion(f, k) ==
    IF k > Len(schedule) \/ schedule[k].kind # "PollutionCell" THEN f
    ELSE EnclosedDiffusion([f EXCEPT ![schedule[k].id] = EnclosedDiffusedValue(f, schedule[k].id)],
                           k + 1)

\* CarAgent.step: "+= 10" on the cell the car moved to
EnclosedCarEmission(f, new_position) ==
    [f EXCEPT ![new_position] = EnclosedPlusInt(@, CarEmission)]

\* "-= 20" instead of "+= 20"
EnclosedFactoryEmissionSubtracts(f, p) ==
    [f EXCEPT ![p] = EnclosedPlusInt(@, 0 - FactoryEmission)]

\* FactoryAgent.step: "+= 20" on the factory's cell
EnclosedFactoryEmission(f, p) ==
    [f EXCEPT ![p] = EnclosedPlusInt(@, FactoryEmission)]

\* advance() of every cell
EnclosedDecay(f) == [p \in DOMAIN f |-> EnclosedTimes(f[p], 9, 10)]

\* PollutionModel.average_pollution on the enclosures f
EnclosedAverage(f) ==
    IF Cardinality(DOMAIN f) > 0
    THEN EnclosedDivInt(EnclosedSumOver(DOMAIN f, f), Cardinality(DOMAIN f))
    ELSE EnclosedZero

\* PollutionModel(3, 3, 1, 1, 0) with the factory placed at (1, 1)
ScenarioInit ==
    /\ width = 3 /\ height = 3
    /\ num_cars = 1 /\ num_factories = 1 /\ num_trees = 0
    /\ error = "none"
    /\ model_vars = <<>>
    /\ steps = 0
    /\ pc = "ready"
    /\ idx = 0
    /\ log = <<>>
    /\ pollution = [p \in Positions(3, 3) |-> EnclosedZero]
    /\ pre = pollution
    /\ pos \in { ps \in [AgentIds(1, 1, 0) -> Positions(3, 3)] : ps[1] = <<1, 1>> }
    /\ alive = [t \in TreeIds(1, 1, 0) |-> TRUE]
    /\ grid = [p \in Positions(3, 3) |->
                 { a \in Agents(ScheduleAgents(3, 3, 1, 1, 0)) :
                     IF a.kind = "PollutionCell" THEN a.id = p ELSE pos[a.id] = p }]

\* one whole PollutionModel.step of the scenario: collect, then every
\* cell's step(), the car's, the factory's, and every cell's advance()
\* (the schedule holds no TreeAgent)
ScenarioStep ==
    /\ error = "none"
    /\ pc = "ready"
    /\ steps < ScenarioTicks
    /\ model_vars' = Append(model_vars, [average |-> EnclosedAverage(pollution),
                                         growth  |-> tree_growth_rate,
                                         death   |-> tree_death_rate])
    /\ \E new_position \in get_neighborhood(pos[0], width, height) :
          /\ grid' = move_agent(grid, AgentOf(0), pos[0], new_position)
          /\ pos' = [pos EXCEPT ![0] = new_position]
          /\ pollution' = EnclosedDecay(
                              EnclosedFactoryEmission(
                                 EnclosedCarEmission(EnclosedDiffusion(pollution, 1),
                                                     new_position),
                                 pos[1]))
    /\ pre' = pollution
    /\ steps' = steps + 1
    /\ UNCHANGED <<config, error, alive, pc, idx, log>>

ScenarioNext == ScenarioStep

Scenario == ScenarioInit /\ [][ScenarioNext]_vars

\* C18: on a 3x3 grid with one Car (any start, any moves), one Factory at
\* (1,1) and no Tree, the average-pollution samples of the five ticks never
\* decrease from one sample to the next, and the average a tick leaves is
\* not below the last sample: each sample's upper bound is at most the
\* next one's lower bound.
C18_AverageNonDecreasing ==
    /\ \A k \in 1 .. Len(model_vars) - 1 :
          model_vars[k].average[2] <= model_vars[k + 1].average[1]
    /\ Len(model_vars) > 0 =>
          model_vars[Len(model_vars)].average[2] <= EnclosedAverage(pollution)[1]

\* the fifth tick has ended with the Car in a corner and five samples taken
C18_Witness ==
    /\ steps = ScenarioTicks /\ Len(model_vars) = ScenarioTicks
    /\ pos[0] = <<0, 0>>
    /\ model_vars[1].average = EnclosedZero
    /\ model_vars[ScenarioTicks].average[1] > 10 * Scale

====
